---- MODULE Spec2Model ----
(***************************************************************************)
(* jvdcmp: the stack-elimination pass (decompiler/passes/stack_to_var.rs)  *)
(* and the descriptor parser of the metadata resolver                      *)
(* (disassembler/transform.rs).                                            *)
(*                                                                         *)
(* Five specifications share this module:                                  *)
(*   SpecExec   a StackLayout driven from StackLayout::new() by execute    *)
(*              and cond_to_expr, one instruction per step;                *)
(*   Spec       stack_to_vars on one method: transform (the walk over the  *)
(*              CFG) followed by handle_parameters;                        *)
(*   SpecLive   the steps of Spec under weak fairness, for termination;    *)
(*   SpecParse  descriptor_to_type / descriptor_to_signature on a string;  *)
(*   SpecPool   process_constant_pool on one constant pool.                *)
(* A Rust panic is modelled as the outcome <<kind>> in a `panic` field     *)
(* (<<>> = no panic); Option<T> is a sequence of length 0 or 1.            *)
(***************************************************************************)
EXTENDS Integers, Sequences, FiniteSets, TLC

VARIABLES
    \* ---- SpecExec: one StackLayout
    layout,        \* self.0 of the StackLayout
    last,          \* what the last call did: instruction, depth before, statements, panic
    \* ---- Spec: stack_to_vars on one method
    cfg,           \* the input Cfg<Instruction, JumpCondition>
    method,        \* modifiers / signature.parameters / code of the Method
    stack_at_bb,   \* transform: Vec<Option<StackLayout>>
    new_bbs,       \* transform: Vec<BasicBlock<Statement, Expr>>
    dfs,           \* petgraph Dfs: [stack, discovered]
    v,             \* the block the walk is processing
    taken,         \* the blocks dfs.next has returned so far, in order
    stack_cur,     \* transform's local `stack` (a StackLayout)
    new_bb,        \* the block under construction
    inst_i,        \* index of the next instruction of bb.stmts
    nbr_i,         \* index of the next outgoing neighbour
    pc,            \* position in stack_to_vars
    panic,         \* <<>> or <<[kind, ...]>>
    \* ---- SpecParse: the descriptor parser
    descriptor,    \* the input string, a sequence of characters
    parsed,        \* <<>> before the call, then <<result>>
    \* ---- SpecPool: disassembler transform on one class file
    constant_pool, \* class_file.constant_pool.constants
    unit,          \* the CompilationUnit under construction
    next_constant, \* position of the loop of process_constant_pool (0-based)
    returned       \* <<>>, then <<[unit]>> on return or <<[panic]>> on a panic

varsExec  == <<layout, last>>
varsXform == <<cfg, method, stack_at_bb, new_bbs, dfs, v, taken, stack_cur, new_bb,
               inst_i, nbr_i, pc, panic>>
varsParse == <<descriptor, parsed>>
varsPool  == <<constant_pool, unit, next_constant, returned>>
vars == <<layout, last, cfg, method, stack_at_bb, new_bbs, dfs, v, taken, stack_cur,
          new_bb, inst_i, nbr_i, pc, panic, descriptor, parsed,
          constant_pool, unit, next_constant, returned>>

----------------------------------------------------------------------------
(* Bounds *)

\* deepest operand stack from which SpecExec still executes an instruction
MaxDepth == 4
\* most parameters of a method reference in the metadata
MaxArgs == 2

None == <<>>
Some(x) == <<x>>

----------------------------------------------------------------------------
(* Instruction vocabulary (disassembler::instructions) and the metadata     *)

BinaryOps == {"Add", "Sub", "Mul", "Div", "Rem", "Shl", "Shr", "Ushr",
              "And", "Or", "Xor"}
InvokeKinds == {"Static", "Virtual", "Special", "Interface"}
Orderings == {"EQ", "LT"}

\* method_refs: index 2*n + r is a method with n parameters, returning Void
\* when r = 0 and Int when r = 1; class_refs, field_refs and literals hold one
\* entry each.
metadata ==
    [ method_refs |-> [ m \in 0 .. (2 * MaxArgs + 1) |->
                         [ class_ref |-> 1,
                           name |-> "m",
                           signature |->
                             [ parameters |-> [ k \in 1 .. (m \div 2) |-> "Int" ],
                               return_type |-> IF m % 2 = 0 THEN "Void" ELSE "Int" ] ] ],
      class_refs  |-> [ c \in {1} |-> "C" ],
      field_refs  |-> [ f \in {1} |-> [ class_ref |-> 1, name |-> "f", typ |-> "Int" ] ],
      literals    |-> [ k \in {1} |-> [ lit |-> "String", s |-> "k" ] ] ]

LValues ==
    [ lv : {"Local"}, index : {0, 1} ]
    \cup [ lv : {"Stack"}, index : {1, 2} ]
    \cup [ lv : {"StaticField"}, field_ref : {1} ]
    \cup [ lv : {"InstanceField"}, object_stack_index : {1, 2}, field_ref : {1} ]

RValues ==
    { [ rv |-> "Constant", literal |-> [ lit |-> "Integer", i |-> 7 ] ],
      [ rv |-> "ConstantRef", const_ref |-> 1 ] }
    \cup [ rv : {"LValue"}, lvalue : LValues ]

Instructions ==
    { [ op |-> o ] : o \in {"Nop", "TypeConv", "ObjManip", "StackManage", "Jump",
                            "Throw", "Synchronized"} }
    \cup [ op : {"Load"}, rvalue : RValues ]
    \cup [ op : {"Store"}, to : LValues ]
    \cup { [ op |-> "Arithm", arithm |-> [ a |-> "UnaryOp", un |-> "Neg" ] ] }
    \cup { [ op |-> "Arithm", arithm |-> [ a |-> "BinaryOp", bin |-> b ] ] : b \in BinaryOps }
    \cup { [ op |-> "Arithm",
             arithm |-> [ a |-> "IncreaseLocal", local_index |-> i, increase |-> c ] ] :
           i \in {0, 1}, c \in {-1, 1} }
    \cup [ op : {"Invoke"}, method_index : DOMAIN metadata.method_refs, kind : InvokeKinds ]
    \cup [ op : {"Return"}, value : {None, Some("value")} ]

JumpConditions ==
    [ c : {"CmpZero", "Cmp", "CmpRef"}, ord : Orderings ]

----------------------------------------------------------------------------
(* decompiler::types constructors used by the pass *)

\* format!("stack_{}", i) / format!("local_{}", i): the prefix and the number
stack(i) == [ n |-> "stack", i |-> i ]

local(i) == [ n |-> "local", i |-> i ]

Variable(name) == [ a |-> "Variable", name |-> name, sub |-> 0 ]

mk_variable(name) == [ e |-> "Assignable", of |-> Variable(name) ]

Assign(to, from) == [ e |-> "Assign", to |-> to, op |-> None, from |-> from ]

stmt_expr(e) == [ s |-> "Expr", expr |-> e ]

convert_un_op(op) ==
    CASE op = "Neg" -> "Neg"

convert_bin_op(op) ==
    CASE op = "Add" -> "Add"
      [] op = "Sub" -> "Sub"
      [] op = "Mul" -> "Mul"
      [] op = "Div" -> "Div"
      [] op = "Rem" -> "Rem"
      [] op = "Shl" -> "Shl"
      [] op = "Shr" -> "Shr"
      [] op = "Ushr" -> "Ushr"
      [] op = "And" -> "BitAnd"
      [] op = "Or" -> "BitOr"
      [] op = "Xor" -> "BitXor"

----------------------------------------------------------------------------
(* StackLayout.  Every operator takes self.0 and returns the new self.0 in   *)
(* `layout`, the returned value in `ret`, and whether an assert fired.      *)

StackLayout_new == 0

get(self, i) == self - i

push_pre_increment(self) == [ layout |-> self + 1, ret |-> self + 1 ]

push(self) == [ layout |-> self + 1, ret |-> self ]

pop_returns_old(self) == [ layout |-> self - 1, ret |-> self, panic |-> ~(self - 1 >= 0) ]

pop(self) == [ layout |-> self - 1, ret |-> self - 1, panic |-> ~(self - 1 >= 0) ]

make_stack_vars_lvalue(self, expr) ==
    LET remove == IF expr.lv \in {"Stack", "InstanceField"} THEN 1 ELSE 0
        result ==
          CASE expr.lv = "Local" -> Variable(local(expr.index))
            [] expr.lv = "Stack" -> Variable(stack(get(self, expr.index)))
            [] expr.lv = "StaticField" ->
                 LET field == metadata.field_refs[expr.field_ref]
                     class == metadata.class_refs[field.class_ref]
                 IN  [ a |-> "Field", this |-> None, class |-> class, field |-> field ]
            [] expr.lv = "InstanceField" ->
                 LET field == metadata.field_refs[expr.field_ref]
                     class == metadata.class_refs[field.class_ref]
                     index == get(self, expr.object_stack_index)
                 IN  [ a |-> "Field", this |-> Some(mk_variable(stack(index))),
                       class |-> class, field |-> field ]
    IN  [ layout |-> self - remove, ret |-> result ]

make_stack_vars_rvalue(self, expr) ==
    CASE expr.rv = "Constant" ->
           [ layout |-> self, ret |-> [ e |-> "Literal", literal |-> expr.literal ] ]
      [] expr.rv = "ConstantRef" ->
           [ layout |-> self,
             ret |-> [ e |-> "Literal", literal |-> metadata.literals[expr.const_ref] ] ]
      [] expr.rv = "LValue" ->
           LET l == make_stack_vars_lvalue(self, expr.lvalue)
           IN  [ layout |-> l.layout, ret |-> [ e |-> "Assignable", of |-> l.ret ] ]

Ok(self, stmts) == [ layout |-> self, stmts |-> stmts, panic |-> None ]

Panic(kind) == [ layout |-> 0, stmts |-> <<>>, panic |-> Some(kind) ]

PopAssert == "assertion failed: self.0 >= 0"

execute_Load(self, rvalue) ==
    LET expr == make_stack_vars_rvalue(self, rvalue)
        top  == push(expr.layout)
    IN  Ok(top.layout, << stmt_expr(Assign(Variable(stack(top.ret)), expr.ret)) >>)

execute_Store(self, to) ==
    LET assignable == make_stack_vars_lvalue(self, to)
        top == pop(assignable.layout)
    IN  IF top.panic THEN Panic(PopAssert)
        ELSE Ok(top.layout,
                << stmt_expr(Assign(assignable.ret, mk_variable(stack(top.ret)))) >>)

execute_UnaryOp(self, op) ==
    LET pv  == pop(self)
        res == push(pv.layout)
    IN  IF pv.panic THEN Panic(PopAssert)
        ELSE Ok(res.layout,
                << stmt_expr(Assign(Variable(stack(res.ret)),
                                    [ e |-> "UnaryOp", op |-> convert_un_op(op),
                                      arg |-> mk_variable(stack(pv.ret)) ])) >>)

execute_BinaryOp_swapped(self, op) ==
    LET pw  == pop(self)
        pv  == pop(pw.layout)
        res == push(pv.layout)
    IN  IF pw.panic \/ pv.panic THEN Panic(PopAssert)
        ELSE Ok(res.layout,
                << stmt_expr(Assign(Variable(stack(res.ret)),
                                    [ e |-> "BinaryOp", op |-> convert_bin_op(op),
                                      left |-> mk_variable(stack(pw.ret)),
                                      right |-> mk_variable(stack(pv.ret)) ])) >>)

execute_BinaryOp(self, op) ==
    LET pw  == pop(self)
        pv  == pop(pw.layout)
        res == push(pv.layout)
    IN  IF pw.panic \/ pv.panic THEN Panic(PopAssert)
        ELSE Ok(res.layout,
                << stmt_expr(Assign(Variable(stack(res.ret)),
                                    [ e |-> "BinaryOp", op |-> convert_bin_op(op),
                                      left |-> mk_variable(stack(pv.ret)),
                                      right |-> mk_variable(stack(pw.ret)) ])) >>)

execute_IncreaseLocal_via_stack(self, local_index, increase) ==
    LET to == Variable(local(local_index))
        top == push(self)
        from == [ e |-> "BinaryOp", op |-> "Add",
                  left |-> mk_variable(stack(top.ret)),
                  right |-> [ e |-> "Literal",
                              literal |-> [ lit |-> "Integer", i |-> increase ] ] ]
    IN  Ok(top.layout, << stmt_expr(Assign(to, from)) >>)

execute_IncreaseLocal(self, local_index, increase) ==
    LET to == Variable(local(local_index))
        from == [ e |-> "BinaryOp", op |-> "Add",
                  left |-> [ e |-> "Assignable", of |-> to ],
                  right |-> [ e |-> "Literal",
                              literal |-> [ lit |-> "Integer", i |-> increase ] ] ]
    IN  Ok(self, << stmt_expr(Assign(to, from)) >>)

\* InvokeKind::Special | InvokeKind::Virtual => pop the receiver; _ => None
has_receiver_non_static(kind) == kind # "Static"

has_receiver(kind) == kind \in {"Special", "Virtual"}

Range_descending(a, b) == [ k \in 1 .. (b - a) |-> b - k ]

\* the half-open range a..b of Rust, as the sequence of its values
Range(a, b) == [ k \in 1 .. (b - a) |-> a + k - 1 ]

execute_Invoke(self, method_index, kind) ==
    LET method_ref == metadata.method_refs[method_index]
        class_ref  == metadata.class_refs[method_ref.class_ref]
        args_count == Len(method_ref.signature.parameters)
        args_range == Range(self - args_count, self)
        after_args == self - args_count
        receiver   == has_receiver(kind)
        top        == pop(after_args)
        this_object == IF receiver THEN Some(mk_variable(stack(top.ret))) ELSE None
        after_this == IF receiver THEN top.layout ELSE after_args
        method_call == [ e |-> "Invoke", this |-> this_object, method |-> method_ref,
                         class |-> class_ref,
                         args |-> [ k \in DOMAIN args_range |->
                                      mk_variable(stack(args_range[k])) ] ]
        result == push(after_this)
    IN  IF receiver /\ top.panic THEN Panic(PopAssert)
        ELSE IF method_ref.signature.return_type = "Void"
             THEN Ok(after_this, << stmt_expr(method_call) >>)
             ELSE Ok(result.layout,
                     << stmt_expr(Assign(Variable(stack(result.ret)), method_call)) >>)

execute_Return(self, value) ==
    LET top == pop(self)
    IN  IF value = None
        THEN Ok(self, << [ s |-> "Return", value |-> None ] >>)
        ELSE IF top.panic THEN Panic(PopAssert)
             ELSE Ok(top.layout,
                     << [ s |-> "Return", value |-> Some(mk_variable(stack(top.ret))) ] >>)

execute(self, instruction) ==
    CASE instruction.op = "Nop" -> Ok(self, <<>>)
      [] instruction.op = "Load" -> execute_Load(self, instruction.rvalue)
      [] instruction.op = "Store" -> execute_Store(self, instruction.to)
      [] instruction.op = "Arithm" ->
           LET arithm == instruction.arithm
           IN  ( CASE arithm.a = "UnaryOp" -> execute_UnaryOp(self, arithm.un)
                   [] arithm.a = "BinaryOp" -> execute_BinaryOp(self, arithm.bin)
                   [] arithm.a = "IncreaseLocal" ->
                        execute_IncreaseLocal(self, arithm.local_index, arithm.increase) )
      [] instruction.op \in {"TypeConv", "ObjManip", "StackManage"} ->
           Panic("not yet implemented")
      [] instruction.op = "Jump" -> Panic("internal error: entered unreachable code")
      [] instruction.op = "Invoke" ->
           execute_Invoke(self, instruction.method_index, instruction.kind)
      [] instruction.op = "Throw" -> Panic("not yet implemented")
      [] instruction.op = "Return" -> execute_Return(self, instruction.value)
      [] instruction.op = "Synchronized" -> Panic("not yet implemented")

cond_to_expr_swapped(self, cond) ==
    CASE cond.c = "CmpZero" ->
           LET pv == pop(self)
           IN  [ layout |-> pv.layout,
                 ret |-> [ e |-> "BinaryOp", op |-> [ cmp |-> cond.ord ],
                           left |-> mk_variable(stack(pv.ret)),
                           right |-> [ e |-> "Literal",
                                       literal |-> [ lit |-> "Integer", i |-> 0 ] ] ],
                 panic |-> IF pv.panic THEN Some(PopAssert) ELSE None ]
      [] cond.c \in {"Cmp", "CmpRef"} ->
           LET pw == pop(self)
               pv == pop(pw.layout)
           IN  [ layout |-> pv.layout,
                 ret |-> [ e |-> "BinaryOp", op |-> [ cmp |-> cond.ord ],
                           left |-> mk_variable(stack(pw.ret)),
                           right |-> mk_variable(stack(pv.ret)) ],
                 panic |-> IF pw.panic \/ pv.panic THEN Some(PopAssert) ELSE None ]

cond_to_expr(self, cond) ==
    CASE cond.c = "CmpZero" ->
           LET pv == pop(self)
           IN  [ layout |-> pv.layout,
                 ret |-> [ e |-> "BinaryOp", op |-> [ cmp |-> cond.ord ],
                           left |-> mk_variable(stack(pv.ret)),
                           right |-> [ e |-> "Literal",
                                       literal |-> [ lit |-> "Integer", i |-> 0 ] ] ],
                 panic |-> IF pv.panic THEN Some(PopAssert) ELSE None ]
      [] cond.c \in {"Cmp", "CmpRef"} ->
           LET pw == pop(self)
               pv == pop(pw.layout)
           IN  [ layout |-> pv.layout,
                 ret |-> [ e |-> "BinaryOp", op |-> [ cmp |-> cond.ord ],
                           left |-> mk_variable(stack(pv.ret)),
                           right |-> mk_variable(stack(pw.ret)) ],
                 panic |-> IF pw.panic \/ pv.panic THEN Some(PopAssert) ELSE None ]

----------------------------------------------------------------------------
(* SpecExec: a StackLayout from StackLayout::new(), driven one call at a    *)
(* time, as the loop over bb.stmts and the terminator drive it.             *)

IdleExec == layout = 0 /\ last = [ call |-> "idle" ]

InitExecVars ==
    /\ layout = StackLayout_new
    /\ last = [ call |-> "new" ]

ExecLive ==
    /\ last.call # "idle"
    /\ (last.call \in {"execute", "cond_to_expr"} => last.panic = None)
    /\ layout <= MaxDepth
    /\ layout >= 0 - MaxDepth

ExecExecute ==
    /\ ExecLive
    /\ \E instruction \in Instructions :
         LET r == execute(layout, instruction)
         IN  /\ layout' = IF r.panic = None THEN r.layout ELSE layout
             /\ last' = [ call |-> "execute", instruction |-> instruction,
                          before |-> layout, stmts |-> r.stmts, panic |-> r.panic ]
    /\ UNCHANGED << varsXform, varsParse, varsPool >>

ExecCondToExpr ==
    /\ ExecLive
    /\ \E cond \in JumpConditions :
         LET r == cond_to_expr(layout, cond)
         IN  /\ layout' = IF r.panic = None THEN r.layout ELSE layout
             /\ last' = [ call |-> "cond_to_expr", cond |-> cond, before |-> layout,
                          expr |-> r.ret, panic |-> r.panic ]
    /\ UNCHANGED << varsXform, varsParse, varsPool >>

----------------------------------------------------------------------------
(* The method given to stack_to_vars.                                       *)
(* Blocks are indexed 0 .. 2 (petgraph NodeIndex); succ[n] lists the        *)
(* outgoing edges of n in the order neighbors_directed(n, Outgoing) yields  *)
(* them, each with its target and its edge weight.                          *)

\* most edges of a control-flow graph
MaxEdges == 3

Nodes == 0 .. 2

Default_BasicBlock == [ stmts |-> <<>>, terminator |-> None ]

LoadConst == [ op |-> "Load",
               rvalue |-> [ rv |-> "Constant", literal |-> [ lit |-> "Integer", i |-> 7 ] ] ]

StoreLocal == [ op |-> "Store", to |-> [ lv |-> "Local", index |-> 0 ] ]

\* the basic blocks a method is built from: net stack effect 0, +1, 0 with a
\* conditional branch, and -1
BlockLib ==
    { [ stmts |-> <<>>, terminator |-> None ],
      [ stmts |-> << LoadConst >>, terminator |-> None ],
      [ stmts |-> << LoadConst >>, terminator |-> Some([ c |-> "CmpZero", ord |-> "EQ" ]) ],
      [ stmts |-> << StoreLocal >>, terminator |-> None ] }

\* the successor lists of the blocks of S, with at most `budget` edges in all
RECURSIVE TargetsOf(_, _)
TargetsOf(S, budget) ==
    IF S = {} THEN { << >> }
    ELSE LET n == CHOOSE x \in S : TRUE
         IN  UNION { { (n :> t) @@ rest : t \in [ 1 .. k -> Nodes ],
                                         rest \in TargetsOf(S \ { n }, budget - k) } :
                     k \in 0 .. budget }

Targets == TargetsOf(Nodes, MaxEdges)

\* edge k of a node carries the weight k
Graph(bbs, targets) ==
    [ bbs  |-> bbs,
      succ |-> [ n \in DOMAIN bbs |->
                   [ k \in DOMAIN targets[n] |-> [ target |-> targets[n][k], weight |-> k ] ] ] ]

\* entry_point is the start block or another block; blocks 1 and 2 are
\* interchangeable in the graphs below, so entry_point = 2 is entry_point = 1
\* with the two blocks renamed
EntryPoints == { 0, 1 }

\* the control-flow graphs over the blocks of lib
Cfgs(lib) ==
    { [ graph |-> Graph(bbs, t), entry_point |-> e, exit_point |-> 0 ] :
        bbs \in [ Nodes -> lib ], t \in Targets, e \in EntryPoints }

\* the blocks of a graph: 0 .. node_count() - 1
node_count(graph) == DOMAIN graph.bbs

LoadLocal(i) ==
    [ op |-> "Load", rvalue |-> [ rv |-> "LValue", lvalue |-> [ lv |-> "Local", index |-> i ] ] ]

AddInst == [ op |-> "Arithm", arithm |-> [ a |-> "BinaryOp", bin |-> "Add" ] ]

ReturnValue == [ op |-> "Return", value |-> Some("value") ]

\* int add(int a, int b) { return a + b; }: one block, no edge
AddMethod ==
    [ graph |-> Graph(0 :> [ stmts |-> << LoadLocal(0), LoadLocal(1), AddInst, ReturnValue >>,
                             terminator |-> None ],
                      0 :> << >>),
      entry_point |-> 0, exit_point |-> 0 ]

\* a block that pushes n values and ends in the conditional branch cond, with
\* the branch target and the fall-through block as its successors
BranchMethod(cond, n) ==
    [ graph |-> Graph(0 :> [ stmts |-> [ k \in 1 .. n |-> LoadConst ], terminator |-> Some(cond) ]
                      @@ 1 :> Default_BasicBlock @@ 2 :> Default_BasicBlock,
                      0 :> << 1, 2 >> @@ 1 :> << >> @@ 2 :> << >>),
      entry_point |-> 0, exit_point |-> 2 ]

\* a block that no edge enters, holding inst and a branch, with an edge to the
\* start block and an edge to itself
DeadBlockMethod(inst) ==
    [ graph |-> Graph(0 :> [ stmts |-> << LoadConst >>, terminator |-> None ]
                      @@ 1 :> [ stmts |-> << inst >>,
                                terminator |-> Some([ c |-> "Cmp", ord |-> "EQ" ]) ],
                      0 :> << >> @@ 1 :> << 0, 1 >>),
      entry_point |-> 0, exit_point |-> 0 ]

\* whole small methods, beside the graphs over BlockLib
Methods ==
    { AddMethod }
    \cup { BranchMethod(cond, n) : cond \in JumpConditions, n \in 0 .. MaxDepth }
    \cup { DeadBlockMethod(inst) : inst \in Instructions }

\* the blocks with an edge to n, by index from m on
RECURSIVE Incoming(_, _, _)
Incoming(graph, n, m) ==
    IF m \notin DOMAIN graph.bbs THEN <<>>
    ELSE ( IF \E k \in DOMAIN graph.succ[m] : graph.succ[m][k].target = n
           THEN << m >> ELSE <<>> ) \o Incoming(graph, n, m + 1)

neighbors_incoming(graph, n) == Incoming(graph, n, 0)

neighbors_first_only(graph, n) ==
    IF graph.succ[n] = <<>> THEN <<>> ELSE << graph.succ[n][1].target >>

neighbors(graph, n) == [ k \in DOMAIN graph.succ[n] |-> graph.succ[n][k].target ]

----------------------------------------------------------------------------
(* petgraph::visit::Dfs *)

Dfs_new(start) == [ stack |-> << start >>, discovered |-> { start } ]

\* the successors of `node` not yet discovered, in iteration order, each once
RECURSIVE Undiscovered(_, _)
Undiscovered(succs, discovered) ==
    IF succs = <<>> THEN <<>>
    ELSE IF Head(succs) \in discovered
         THEN Undiscovered(Tail(succs), discovered)
         ELSE << Head(succs) >> \o Undiscovered(Tail(succs), discovered \cup { Head(succs) })

SeqRange(s) == { s[k] : k \in DOMAIN s }

\* Dfs::next on a non-empty stack: pop a node, push its undiscovered successors
Dfs_next(d, graph) ==
    LET node   == d.stack[Len(d.stack)]
        rest   == SubSeq(d.stack, 1, Len(d.stack) - 1)
        pushed == Undiscovered(neighbors(graph, node), d.discovered)
    IN  [ node |-> node,
          dfs  |-> [ stack |-> rest \o pushed,
                     discovered |-> d.discovered \cup SeqRange(pushed) ] ]

----------------------------------------------------------------------------
(* transform: the walk *)

\* the block the walk starts from and seeds with StackLayout::new()
StartBlock == 0

IdleXform ==
    /\ cfg = None /\ method = [ code |-> None ]
    /\ stack_at_bb = <<>> /\ new_bbs = <<>> /\ dfs = Dfs_new(0)
    /\ v = 0 /\ taken = <<>> /\ stack_cur = 0 /\ new_bb = Default_BasicBlock
    /\ inst_i = 0 /\ nbr_i = 0 /\ pc = "idle" /\ panic = None

\* the state of transform on entry to its while loop, for a body among cfgs
InitTransform(cfgs) ==
    /\ cfg \in { Some(c) : c \in cfgs }
    /\ method = [ code |-> None ]
    /\ stack_at_bb = [ n \in node_count(cfg[1].graph) |->
                         IF n = StartBlock THEN Some(StackLayout_new) ELSE None ]
    /\ new_bbs = [ n \in node_count(cfg[1].graph) |-> Default_BasicBlock ]
    /\ dfs = Dfs_new(StartBlock)
    /\ v = 0 /\ taken = <<>> /\ stack_cur = 0 /\ new_bb = Default_BasicBlock
    /\ inst_i = 0 /\ nbr_i = 0
    /\ pc = "walk"
    /\ panic = None

\* a method with a body
InitWithCode == InitTransform(Cfgs(BlockLib) \cup Methods)

\* the blocks of the graphs the walk is followed to its end on: net stack
\* effect 0 and +1
WalkLib == { b \in BlockLib : b.terminator = None /\ b.stmts \in { <<>>, << LoadConst >> } }

\* a method without a body (abstract, native): nothing to transform
InitNoCode ==
    /\ cfg = None
    /\ method = [ code |-> None ]
    /\ stack_at_bb = <<>> /\ new_bbs = <<>> /\ dfs = Dfs_new(StartBlock)
    /\ v = 0 /\ taken = <<>> /\ stack_cur = 0 /\ new_bb = Default_BasicBlock
    /\ inst_i = 0 /\ nbr_i = 0
    /\ pc = "handle_parameters"
    /\ panic = None

InputGraph == cfg[1].graph

Abort(p) ==
    /\ pc' = "panicked"
    /\ panic' = Some(p)

\* while let Some(v) = dfs.next(&cfg.graph) { let mut stack = stack_at_bb[index].unwrap();
DfsNext ==
    /\ pc = "walk"
    /\ dfs.stack # <<>>
    /\ LET nx == Dfs_next(dfs, InputGraph)
       IN  /\ dfs' = nx.dfs
           /\ v' = nx.node
           /\ taken' = Append(taken, nx.node)
           /\ IF stack_at_bb[nx.node] = None
              THEN /\ Abort([ kind |-> "called Option::unwrap() on a None value" ])
                   /\ UNCHANGED << stack_cur, new_bb, inst_i >>
              ELSE /\ stack_cur' = stack_at_bb[nx.node][1]
                   /\ new_bb' = Default_BasicBlock
                   /\ inst_i' = 1
                   /\ pc' = "stmts"
                   /\ UNCHANGED panic
    /\ UNCHANGED << cfg, method, stack_at_bb, new_bbs, nbr_i >>
    /\ UNCHANGED << varsExec, varsParse, varsPool >>

\* for inst in &mut bb.stmts { new_bb.stmts.append(&mut stack.execute(inst, metadata)); }
ExecuteInst ==
    /\ pc = "stmts"
    /\ inst_i <= Len(InputGraph.bbs[v].stmts)
    /\ LET r == execute(stack_cur, InputGraph.bbs[v].stmts[inst_i])
       IN  IF r.panic # None
           THEN /\ Abort([ kind |-> r.panic[1] ])
                /\ UNCHANGED << stack_cur, new_bb, inst_i >>
           ELSE /\ stack_cur' = r.layout
                /\ new_bb' = [ new_bb EXCEPT !.stmts = @ \o r.stmts ]
                /\ inst_i' = inst_i + 1
                /\ UNCHANGED << pc, panic >>
    /\ UNCHANGED << cfg, method, stack_at_bb, new_bbs, dfs, v, taken, nbr_i >>
    /\ UNCHANGED << varsExec, varsParse, varsPool >>

\* new_bb.terminator = bb.terminator.map(|t| stack.cond_to_expr(&t)); new_bbs[index] = new_bb
Terminator ==
    /\ pc = "stmts"
    /\ inst_i > Len(InputGraph.bbs[v].stmts)
    /\ LET t == InputGraph.bbs[v].terminator
           r == cond_to_expr(stack_cur, t[1])
       IN  IF t # None /\ r.panic # None
           THEN /\ Abort([ kind |-> r.panic[1] ])
                /\ UNCHANGED << stack_cur, new_bb, new_bbs, nbr_i >>
           ELSE /\ stack_cur' = IF t = None THEN stack_cur ELSE r.layout
                /\ new_bb' = [ new_bb EXCEPT !.terminator =
                                 IF t = None THEN None ELSE Some(r.ret) ]
                /\ new_bbs' = [ new_bbs EXCEPT ![v] = new_bb' ]
                /\ nbr_i' = 1
                /\ pc' = IF neighbors(InputGraph, v) = <<>> THEN "walk" ELSE "succ"
                /\ UNCHANGED panic
    /\ UNCHANGED << cfg, method, stack_at_bb, dfs, v, taken, inst_i >>
    /\ UNCHANGED << varsExec, varsParse, varsPool >>

stacks_differ_less(left, right) == left < right

set_stack_at_skip(stack_at, w, stack_of_v) == stack_at

\* *stack_at_w = Some(stack);
set_stack_at(stack_at, w, stack_of_v) == [ stack_at EXCEPT ![w] = Some(stack_of_v) ]

\* assert_eq!(stack, stack_at_w, ..) fails
stacks_differ(left, right) == left # right

\* for w in cfg.graph.neighbors_directed(v, Direction::Outgoing) { ... }
Successor ==
    /\ pc = "succ"
    /\ nbr_i <= Len(neighbors(InputGraph, v))
    /\ LET w == neighbors(InputGraph, v)[nbr_i]
       IN  IF stack_at_bb[w] # None /\ stacks_differ(stack_cur, stack_at_bb[w][1])
           THEN /\ Abort([ kind |-> "assertion failed: (left == right)",
                           node |-> w, expected |-> stack_cur, found |-> stack_at_bb[w][1] ])
                /\ UNCHANGED << stack_at_bb, nbr_i >>
           ELSE /\ stack_at_bb' = IF stack_at_bb[w] # None THEN stack_at_bb
                                   ELSE set_stack_at(stack_at_bb, w, stack_cur)
                /\ nbr_i' = nbr_i + 1
                /\ pc' = IF nbr_i = Len(neighbors(InputGraph, v)) THEN "walk" ELSE "succ"
                /\ UNCHANGED panic
    /\ UNCHANGED << cfg, method, new_bbs, dfs, v, taken, stack_cur, new_bb, inst_i >>
    /\ UNCHANGED << varsExec, varsParse, varsPool >>

output_cfg_points_swapped(c, bbs) ==
    [ graph |-> [ bbs |-> bbs, succ |-> c.graph.succ ],
      entry_point |-> c.exit_point,
      exit_point  |-> c.entry_point ]

\* Cfg { graph: cfg.graph.map(|nx, _| new_bbs[nx.index()], |_, e| *e),
\*       entry_point: cfg.entry_point, exit_point: cfg.exit_point }
output_cfg(c, bbs) ==
    [ graph |-> [ bbs |-> bbs, succ |-> c.graph.succ ],
      entry_point |-> c.entry_point,
      exit_point  |-> c.exit_point ]

\* the return of transform
Build ==
    /\ pc = "walk"
    /\ dfs.stack = <<>>
    /\ method' = [ code |-> Some(output_cfg(cfg[1], new_bbs)) ]
    /\ new_bbs' = [ n \in node_count(InputGraph) |-> Default_BasicBlock ]
    /\ pc' = "handle_parameters"
    /\ UNCHANGED << cfg, stack_at_bb, dfs, v, taken, stack_cur, new_bb, inst_i, nbr_i, panic >>
    /\ UNCHANGED << varsExec, varsParse, varsPool >>

----------------------------------------------------------------------------
(* handle_parameters *)

This == [ e |-> "This" ]

handle_parameters_no_increment(m) ==
    LET is_static == "Static" \in m.modifiers
        assignments ==
          IF ~is_static
          THEN << [ s |-> "Expr", expr |-> Assign(Variable(local(0)), This) ] >>
          ELSE <<>>
        parameters ==
          [ k \in DOMAIN m.signature.parameters |->
              [ m.signature.parameters[k] EXCEPT !.name = local(k - 1) ] ]
        code ==
          IF m.code = None THEN None
          ELSE LET c == m.code[1]
               IN  Some([ c EXCEPT !.graph.bbs[c.entry_point].stmts = @ \o assignments ])
    IN  [ method |-> [ modifiers |-> m.modifiers,
                       signature |-> [ parameters |-> parameters,
                                       return_type |-> m.signature.return_type ],
                       code |-> code ],
          assignments |-> assignments ]

handle_parameters(m) ==
    LET is_static == "Static" \in m.modifiers
        assignments ==
          IF ~is_static
          THEN << [ s |-> "Expr", expr |-> Assign(Variable(local(0)), This) ] >>
          ELSE <<>>
        first == IF ~is_static THEN 1 ELSE 0
        parameters ==
          [ k \in DOMAIN m.signature.parameters |->
              [ m.signature.parameters[k] EXCEPT !.name = local(first + (k - 1)) ] ]
        code ==
          IF m.code = None THEN None
          ELSE LET c == m.code[1]
               IN  Some([ c EXCEPT !.graph.bbs[c.entry_point].stmts = @ \o assignments ])
    IN  [ method |-> [ modifiers |-> m.modifiers,
                       signature |-> [ parameters |-> parameters,
                                       return_type |-> m.signature.return_type ],
                       code |-> code ],
          assignments |-> assignments ]

\* the formal parameters of a method with n parameters, as the resolver names them
Parameters(n) == [ k \in 1 .. n |-> [ name |-> [ n |-> "arg", i |-> k ], typ |-> "Int" ] ]

\* for declaration in &mut unit.declarations { Declaration::Method(m) => handle_parameters(m) }
\* The modifiers and the signature of the method are read here for the first
\* time, so they are drawn here.
HandleParameters ==
    /\ pc = "handle_parameters"
    /\ \E modifiers \in { {"Public"}, {"Public", "Static"} }, n \in { 0, 2, MaxArgs } :
         LET m == [ modifiers |-> modifiers,
                    signature |-> [ parameters |-> Parameters(n), return_type |-> "Int" ],
                    code |-> method.code ]
         IN  method' = handle_parameters(m).method
    /\ pc' = "done"
    /\ UNCHANGED << cfg, stack_at_bb, new_bbs, dfs, v, taken, stack_cur, new_bb, inst_i, nbr_i, panic >>
    /\ UNCHANGED << varsExec, varsParse, varsPool >>

----------------------------------------------------------------------------
(* The descriptor parser (disassembler/transform.rs).  A string is the      *)
(* sequence of its characters; a parser takes the characters the iterator   *)
(* has left and returns the parsed value with the characters it leaves.     *)

Type_Byte    == [ t |-> "Byte" ]
Type_Char    == [ t |-> "Char" ]
Type_Double  == [ t |-> "Double" ]
Type_Float   == [ t |-> "Float" ]
Type_Int     == [ t |-> "Int" ]
Type_Long    == [ t |-> "Long" ]
Type_Short   == [ t |-> "Short" ]
Type_Void    == [ t |-> "Void" ]
Type_Boolean == [ t |-> "Boolean" ]
Type_Reference(class_name) == [ t |-> "Reference", name |-> class_name ]
Type_Array(inner) == [ t |-> "Array", of |-> inner ]

ParseOk(value, rest) == [ panic |-> None, value |-> Some(value), rest |-> rest ]

ParsePanic(msg) == [ panic |-> Some(msg), value |-> None, rest |-> <<>> ]

UnwrapNone == "called Option::unwrap() on a None value"

RECURSIVE class_name_loop_push_first(_, _)
class_name_loop_push_first(chars, class_name) ==
    IF chars = <<>> THEN [ class_name |-> class_name, rest |-> <<>> ]
    ELSE IF Head(chars) = ";"
         THEN [ class_name |-> Append(class_name, Head(chars)), rest |-> Tail(chars) ]
    ELSE class_name_loop_push_first(Tail(chars), Append(class_name, Head(chars)))

\* for ch in chars { if ch == ';' { break; } class_name.push(ch); }
\* the characters before the first ';', and what the iterator has left after it
RECURSIVE class_name_loop(_, _)
class_name_loop(chars, class_name) ==
    IF chars = <<>> THEN [ class_name |-> class_name, rest |-> <<>> ]
    ELSE IF Head(chars) = ";" THEN [ class_name |-> class_name, rest |-> Tail(chars) ]
    ELSE class_name_loop(Tail(chars), Append(class_name, Head(chars)))

RECURSIVE descriptor_to_type(_)
descriptor_to_type(chars) ==
    IF chars = <<>> THEN ParsePanic(UnwrapNone)
    ELSE LET next == Head(chars)
             rest == Tail(chars)
         IN  CASE next = "B" -> ParseOk(Type_Byte, rest)
               [] next = "C" -> ParseOk(Type_Char, rest)
               [] next = "D" -> ParseOk(Type_Double, rest)
               [] next = "F" -> ParseOk(Type_Float, rest)
               [] next = "I" -> ParseOk(Type_Int, rest)
               [] next = "J" -> ParseOk(Type_Long, rest)
               [] next = "L" ->
                    LET l == class_name_loop(rest, <<>>)
                    IN  ParseOk(Type_Reference(l.class_name), l.rest)
               [] next = "S" -> ParseOk(Type_Short, rest)
               [] next = "V" -> ParseOk(Type_Void, rest)
               [] next = "Z" -> ParseOk(Type_Boolean, rest)
               [] next = "[" ->
                    LET inner == descriptor_to_type(rest)
                    IN  IF inner.panic # None THEN inner
                        ELSE ParseOk(Type_Array(inner.value[1]), inner.rest)
               [] OTHER -> ParsePanic("Invalid start of type descriptor")

\* the loop of descriptor_to_signature, entered with the characters after '('
RECURSIVE signature_loop(_, _)
signature_loop(chars, params) ==
    IF chars = <<>> THEN ParsePanic(UnwrapNone)
    ELSE LET lookahead == Head(chars)
             param == IF lookahead # ")" THEN descriptor_to_type(chars)
                      ELSE ParseOk(Type_Void, chars)
             params1 == IF lookahead # ")" /\ param.panic = None
                        THEN Append(params, param.value[1]) ELSE params
         IN  IF param.panic # None THEN param
             ELSE IF param.rest = <<>> THEN ParsePanic(UnwrapNone)
             ELSE LET next == Head(param.rest)
                  IN  CASE next = ")" -> ParseOk(params1, Tail(param.rest))
                        [] next = "," -> signature_loop(Tail(param.rest), params1)
                        [] OTHER -> ParsePanic("Expected ')' or ',' in method descriptor")

descriptor_to_signature(d) ==
    IF d = <<>> THEN ParsePanic(UnwrapNone)
    ELSE IF Head(d) # "("
    THEN ParsePanic("Expected open paren at beginning of method descriptor")
    ELSE LET params == signature_loop(Tail(d), <<>>)
             return_type == descriptor_to_type(params.rest)
         IN  IF params.panic # None THEN params
             ELSE IF return_type.panic # None THEN return_type
             ELSE ParseOk([ parameters |-> params.value[1],
                            return_type |-> return_type.value[1] ],
                          return_type.rest)

(* The descriptors given to the parser: the grammar of the class-file format. *)

\* longest string of the exhaustive part of the inputs
MaxDescLen == 4
\* deepest array nesting and longest class name of a generated Type
MaxNesting == 2

CoreChars == { "(", ")", ",", ";", "[", "L", "I", "V", "a" }

NameChars == { "a", "/" }

PrimitiveCode(typ) ==
    CASE typ = Type_Byte -> "B" [] typ = Type_Char -> "C" [] typ = Type_Double -> "D"
      [] typ = Type_Float -> "F" [] typ = Type_Int -> "I" [] typ = Type_Long -> "J"
      [] typ = Type_Short -> "S" [] typ = Type_Void -> "V" [] typ = Type_Boolean -> "Z"

Primitives == { Type_Byte, Type_Char, Type_Double, Type_Float, Type_Int, Type_Long, Type_Short, Type_Void, Type_Boolean }

ClassNames == UNION { [ 1 .. k -> NameChars ] : k \in 1 .. MaxNesting }

RECURSIVE ArraysOf(_, _)
ArraysOf(S, k) == IF k = 0 THEN S ELSE S \cup { Type_Array(x) : x \in ArraysOf(S, k - 1) }

Types == ArraysOf(Primitives \cup { Type_Reference(c) : c \in ClassNames }, MaxNesting)

\* the descriptor of a Type: its code, L<name>; or [ and the element's descriptor
RECURSIVE TypeDescriptor(_)
TypeDescriptor(typ) ==
    CASE typ.t = "Reference" -> << "L" >> \o typ.name \o << ";" >>
      [] typ.t = "Array" -> << "[" >> \o TypeDescriptor(typ.of)
      [] OTHER -> << PrimitiveCode(typ) >>

RECURSIVE Concat(_, _)
Concat(seqs, sep) ==
    IF seqs = <<>> THEN <<>>
    ELSE IF Len(seqs) = 1 THEN seqs[1]
    ELSE seqs[1] \o sep \o Concat(Tail(seqs), sep)

\* the method descriptor of a Signature, the parameter descriptors joined by sep
MethodDescriptor(sig, sep) ==
    << "(" >> \o Concat([ k \in DOMAIN sig.parameters |-> TypeDescriptor(sig.parameters[k]) ], sep)
      \o << ")" >> \o TypeDescriptor(sig.return_type)

ParamTypes == { Type_Int, Type_Reference(<< "a" >>), Type_Array(Type_Int) }

Signatures ==
    [ parameters : UNION { [ 1 .. k -> ParamTypes ] : k \in 0 .. MaxArgs },
      return_type : { Type_Void, Type_Int } ]

Descriptors ==
    UNION { [ 1 .. k -> CoreChars ] : k \in 0 .. MaxDescLen }
    \cup { TypeDescriptor(typ) : typ \in Types }
    \cup { MethodDescriptor(sig, sep) : sig \in Signatures, sep \in { <<>>, << "," >> } }

InitParseVars ==
    /\ descriptor \in Descriptors
    /\ parsed = None

\* let typ = descriptor_to_type(&mut descriptor.chars());
ParseType ==
    /\ parsed = None
    /\ parsed' = Some([ fn |-> "descriptor_to_type" ] @@ descriptor_to_type(descriptor))
    /\ UNCHANGED descriptor
    /\ UNCHANGED << varsExec, varsXform, varsPool >>

\* let signature = descriptor_to_signature(descriptor);
ParseSignature ==
    /\ parsed = None
    /\ parsed' = Some([ fn |-> "descriptor_to_signature" ] @@ descriptor_to_signature(descriptor))
    /\ UNCHANGED descriptor
    /\ UNCHANGED << varsExec, varsXform, varsPool >>

----------------------------------------------------------------------------
(* process_constant_pool (disassembler/transform.rs).  A HashMap is a       *)
(* function from the keys inserted so far; a string is the sequence of its  *)
(* characters.                                                              *)

\* entries of a constant pool
MaxPool == 3

Utf8(str) == [ tag |-> "Utf8", str |-> str ]

ConstantInfos ==
    { Utf8(<< "I" >>), Utf8(<< "(", ")", "V" >>) }
    \cup { [ tag |-> "Integer", int |-> 7 ] }
    \cup { [ tag |-> "Class", name_index |-> 1 ] }
    \cup { [ tag |-> "String", string_index |-> 1 ] }
    \cup [ tag : { "FieldRef", "MethodRef" }, class_index : { 1 }, name_index : 1 .. MaxPool ]
    \cup [ tag : { "NameAndType" }, name_index : { 1 }, descriptor_index : 1 .. MaxPool ]

ConstantPools == [ 1 .. MaxPool -> ConstantInfos ]

\* constant_pool.lookup(index): the entry at the 1-based index
lookup(constants, index) == constants[index]

\* constant_pool.lookup_string(index): the string of a Utf8 entry, a panic otherwise
lookup_string(constants, index) ==
    IF lookup(constants, index).tag = "Utf8"
    THEN [ panic |-> None, str |-> lookup(constants, index).str ]
    ELSE [ panic |-> Some("Index doesn't point to a Utf8"), str |-> <<>> ]

insert(map, key, value) ==
    [ k \in DOMAIN map \cup { key } |-> IF k = key THEN value ELSE map[k] ]

HashMap_new == << >>

\* the CompilationUnit transform starts from
EmptyUnit ==
    [ java_constants |-> HashMap_new, string_constants |-> HashMap_new,
      class_refs |-> HashMap_new, field_refs |-> HashMap_new,
      method_refs |-> HashMap_new, name_refs |-> HashMap_new ]

PoolOk(u) == [ panic |-> None, unit |-> u ]

PoolPanic(msg) == [ panic |-> Some(msg), unit |-> EmptyUnit ]

name_and_type_any(c) == Some([ name_index |-> 1, descriptor_index |-> 1 ])

\* match *constant_pool.lookup(name_index) { NameAndType { .. } => (..), ref c => panic!(..) }
name_and_type(c) ==
    IF c.tag = "NameAndType"
    THEN Some([ name_index |-> c.name_index, descriptor_index |-> c.descriptor_index ])
    ELSE None

NotNameAndType == "Index doesn't point to a NameAndType"

\* the arm for FieldRef (table field_refs, parsed by descriptor_to_type) and the
\* arm for MethodRef (table method_refs, parsed by descriptor_to_signature)
member_ref(u, constants, index, constant, table) ==
    LET nt == name_and_type(lookup(constants, constant.name_index))
    IN  IF nt = None THEN PoolPanic(NotNameAndType)
        ELSE LET name == lookup_string(constants, nt[1].name_index)
                 descriptor_string == lookup_string(constants, nt[1].descriptor_index)
                 typ == IF table = "field_refs"
                        THEN descriptor_to_type(descriptor_string.str)
                        ELSE descriptor_to_signature(descriptor_string.str)
             IN  IF name.panic # None THEN PoolPanic(name.panic[1])
                 ELSE IF descriptor_string.panic # None THEN PoolPanic(descriptor_string.panic[1])
                 ELSE IF typ.panic # None THEN PoolPanic(typ.panic[1])
                 ELSE PoolOk([ u EXCEPT ![table] =
                                 insert(@, index, [ class_ref |-> constant.class_index,
                                                    name |-> name.str,
                                                    typ |-> typ.value[1] ]) ])

\* one iteration of the loop of process_constant_pool
process_constant(u, constants, index, constant) ==
    CASE constant.tag = "Utf8" ->
           PoolOk([ u EXCEPT !.string_constants = insert(@, index, constant.str) ])
      [] constant.tag = "Integer" ->
           PoolOk([ u EXCEPT !.java_constants =
                      insert(@, index, [ lit |-> "Integer", i |-> constant.int ]) ])
      [] constant.tag = "Class" ->
           LET name == lookup_string(constants, constant.name_index)
           IN  IF name.panic # None THEN PoolPanic(name.panic[1])
               ELSE PoolOk([ u EXCEPT !.class_refs = insert(@, index, name.str) ])
      [] constant.tag = "String" ->
           LET string == lookup_string(constants, constant.string_index)
           IN  IF string.panic # None THEN PoolPanic(string.panic[1])
               ELSE PoolOk([ u EXCEPT !.java_constants =
                               insert(@, index, [ lit |-> "String", s |-> string.str ]) ])
      [] constant.tag = "FieldRef" ->
           member_ref(u, constants, index, constant, "field_refs")
      [] constant.tag = "MethodRef" ->
           member_ref(u, constants, index, constant, "method_refs")
      [] constant.tag = "NameAndType" ->
           LET name == lookup_string(constants, constant.name_index)
               descriptor_string == lookup_string(constants, constant.descriptor_index)
               is_signature == descriptor_string.str # <<>> /\ Head(descriptor_string.str) = "("
               descriptor_value == IF is_signature
                             THEN descriptor_to_signature(descriptor_string.str)
                             ELSE descriptor_to_type(descriptor_string.str)
           IN  IF name.panic # None THEN PoolPanic(name.panic[1])
               ELSE IF descriptor_string.panic # None THEN PoolPanic(descriptor_string.panic[1])
               ELSE IF descriptor_value.panic # None THEN PoolPanic(descriptor_value.panic[1])
               ELSE PoolOk([ u EXCEPT !.name_refs =
                               insert(@, index,
                                      [ name |-> name.str,
                                        typ |-> [ d |-> IF is_signature THEN "Signature" ELSE "Type",
                                                  of |-> descriptor_value.value[1] ] ]) ])

IdlePool ==
    /\ constant_pool = <<>> /\ unit = EmptyUnit /\ next_constant = 0 /\ returned = None

InitPoolVars ==
    /\ constant_pool \in ConstantPools
    /\ unit = EmptyUnit
    /\ next_constant = 0
    /\ returned = None

\* for (index, constant) in constant_pool.constants.iter().enumerate() { ... }
ProcessConstant ==
    /\ returned = None
    /\ next_constant < Len(constant_pool)
    /\ LET index == next_constant + 1
           r == process_constant(unit, constant_pool, index, constant_pool[index])
       IN  IF r.panic # None
           THEN /\ returned' = Some([ panic |-> r.panic ])
                /\ UNCHANGED << unit, next_constant >>
           ELSE /\ unit' = r.unit
                /\ next_constant' = next_constant + 1
                /\ UNCHANGED returned
    /\ UNCHANGED constant_pool
    /\ UNCHANGED << varsExec, varsXform, varsParse >>

\* process_constant_pool returns and transform returns the unit
ReturnUnit ==
    /\ returned = None
    /\ next_constant = Len(constant_pool)
    /\ returned' = Some([ panic |-> None, unit |-> unit ])
    /\ UNCHANGED << constant_pool, unit, next_constant >>
    /\ UNCHANGED << varsExec, varsXform, varsParse >>

----------------------------------------------------------------------------
(* Specifications *)

IdleParse == descriptor = <<>> /\ parsed = None

Init ==
    /\ InitWithCode \/ InitNoCode
    /\ IdleExec
    /\ IdleParse
    /\ IdlePool

Next ==
    \/ DfsNext
    \/ ExecuteInst
    \/ Terminator
    \/ Successor
    \/ Build
    \/ HandleParameters

Spec == Init /\ [][Next]_vars

InitLive ==
    /\ InitTransform(Cfgs(WalkLib) \cup Methods) \/ InitNoCode
    /\ IdleExec
    /\ IdleParse
    /\ IdlePool

\* stack_to_vars is sequential code that runs until it returns or panics
SpecLive == InitLive /\ [][Next]_vars /\ WF_vars(Next)

InitExec ==
    /\ InitExecVars
    /\ IdleXform
    /\ IdleParse
    /\ IdlePool

NextExec ==
    \/ ExecExecute
    \/ ExecCondToExpr

SpecExec == InitExec /\ [][NextExec]_vars

InitParse ==
    /\ InitParseVars
    /\ IdleExec
    /\ IdleXform
    /\ IdlePool

NextParse ==
    \/ ParseType
    \/ ParseSignature

SpecParse == InitParse /\ [][NextParse]_vars

InitPool ==
    /\ InitPoolVars
    /\ IdleExec
    /\ IdleXform
    /\ IdleParse

NextPool ==
    \/ ProcessConstant
    \/ ReturnUnit

SpecPool == InitPool /\ [][NextPool]_vars

----------------------------------------------------------------------------
(* Properties *)

\* the blocks reachable from the blocks of S along the edges of the graph
RECURSIVE ReachFrom(_, _)
ReachFrom(graph, S) ==
    LET T == S \cup UNION { SeqRange(neighbors(graph, n)) : n \in S }
    IN  IF T = S THEN S ELSE ReachFrom(graph, T)

\* the depth after the instructions of a block executed from depth d
RECURSIVE DepthAfter(_, _)
DepthAfter(d, stmts) ==
    IF stmts = <<>> THEN d
    ELSE DepthAfter(execute(d, Head(stmts)).layout, Tail(stmts))

\* the depth at the end of a block entered at depth d: after its instructions
\* and its jump condition
ExitDepth(d, bb) ==
    IF bb.terminator = None THEN DepthAfter(d, bb.stmts)
    ELSE cond_to_expr(DepthAfter(d, bb.stmts), bb.terminator[1]).layout

Succeeded == cfg # None /\ pc \in { "handle_parameters", "done" }

MismatchAbort ==
    pc = "panicked" /\ panic[1].kind = "assertion failed: (left == right)"

\* C1: transform completes only if every edge a -> w leaving a block a
\* reachable from the start block has the exit depth of a equal to the entry
\* depth of w (0 for the start block); a failed comparison aborts naming the
\* successor w whose entry depth disagrees with the exit depth of the block
\* just processed, and an aborted transform produces no statement-level CFG.
C1_MergePointConsistency ==
    /\ Succeeded =>
         /\ stack_at_bb[StartBlock] = Some(0)
         /\ \A a \in ReachFrom(InputGraph, { StartBlock }) :
              /\ stack_at_bb[a] # None
              /\ \A k \in DOMAIN InputGraph.succ[a] :
                   stack_at_bb[InputGraph.succ[a][k].target]
                     = Some(ExitDepth(stack_at_bb[a][1], InputGraph.bbs[a]))
    /\ pc = "panicked" => method.code = None
    /\ MismatchAbort =>
         /\ panic[1].node \in SeqRange(neighbors(InputGraph, v))
         /\ v \in ReachFrom(InputGraph, { StartBlock })
         /\ stack_cur = ExitDepth(stack_at_bb[v][1], InputGraph.bbs[v])
         /\ stack_at_bb[panic[1].node] # None
         /\ stack_at_bb[panic[1].node] # Some(stack_cur)

\* a mismatch abort at a block with a second predecessor that the walk reached
C1_Witness ==
    /\ MismatchAbort
    /\ \E u \in dfs.discovered \ { v } :
         panic[1].node \in SeqRange(neighbors(InputGraph, u))

ThisAssignment == [ s |-> "Expr", expr |-> Assign(Variable(local(0)), This) ]

\* C2: for a non-static method with a body, handle_parameters leaves
\* local_0 := this as the first statement of the entry block, followed by the
\* statements the block held before, in their order.
C2_ThisAssignmentPrepended ==
    [][ ( /\ pc = "handle_parameters" /\ pc' = "done"
          /\ method.code # None
          /\ "Static" \notin method'.modifiers )
        => LET c == method.code[1]
           IN  method'.code[1].graph.bbs[c.entry_point].stmts
                 = << ThisAssignment >> \o c.graph.bbs[c.entry_point].stmts ]_vars

\* C3: in every state of a translation that has not aborted the depth counter
\* is >= 0.
C3_DepthNeverNegative ==
    ( last.call \in { "execute", "cond_to_expr" } /\ last.panic = None ) => layout >= 0

\* C4: the block seeded with entry depth 0, from which the walk starts, is
\* cfg.entry_point: the entry point is discovered and has its entry depth from
\* the first state of the walk on.
C4_WalkStartsAtEntryPoint ==
    ( cfg # None /\ pc # "idle" ) =>
        /\ cfg[1].entry_point \in dfs.discovered
        /\ stack_at_bb[cfg[1].entry_point] # None

LastIsBinaryOp ==
    /\ last.call = "execute"
    /\ last.instruction.op = "Arithm"
    /\ last.instruction.arithm.a = "BinaryOp"

\* C5: a binary arithmetic instruction at depth d >= 2 emits exactly
\* stack_{d-2} := stack_{d-2} op stack_{d-1} and leaves the depth d-1;
\* subtraction is (slot pushed first) - (slot pushed last).
C5_BinaryOpOperandOrder ==
    ( LastIsBinaryOp /\ last.before >= 2 ) =>
        LET d == last.before
            expected(op) ==
              stmt_expr(Assign(Variable(stack(d - 2)),
                               [ e |-> "BinaryOp", op |-> op,
                                 left |-> mk_variable(stack(d - 2)),
                                 right |-> mk_variable(stack(d - 1)) ]))
        IN  /\ last.panic = None
            /\ layout = d - 1
            /\ \E op \in { "Add", "Sub", "Mul", "Div", "Rem", "Shl", "Shr", "Ushr",
                           "BitAnd", "BitOr", "BitXor" } :
                 last.stmts = << expected(op) >>
            /\ last.instruction.arithm.bin = "Sub" => last.stmts = << expected("Sub") >>

\* a subtraction executed with two operands on the stack
C5_Witness ==
    /\ LastIsBinaryOp
    /\ last.instruction.arithm.bin = "Sub"
    /\ last.before = 2
    /\ last.panic = None

LastIsInvoke ==
    /\ last.call = "execute"
    /\ last.instruction.op = "Invoke"
    /\ last.panic = None

\* C6: an invoke of a method with n parameters at depth d leaves the depth
\* d - n - r + v, r = 1 exactly for virtual and special, v = 1 exactly for a
\* return type other than Void; a Void method emits a bare call statement, any
\* other one assignment of the call into the newly pushed slot.
C6_InvokeDepth ==
    LastIsInvoke =>
        LET sig == metadata.method_refs[last.instruction.method_index].signature
            n == Len(sig.parameters)
            r == IF last.instruction.kind \in { "Virtual", "Special" } THEN 1 ELSE 0
            rv == IF sig.return_type # "Void" THEN 1 ELSE 0
        IN  /\ layout = last.before - n - r + rv
            /\ Len(last.stmts) = 1
            /\ last.stmts[1].s = "Expr"
            /\ sig.return_type = "Void" => last.stmts[1].expr.e = "Invoke"
            /\ sig.return_type # "Void" =>
                 /\ last.stmts[1].expr.e = "Assign"
                 /\ last.stmts[1].expr.from.e = "Invoke"
                 /\ last.stmts[1].expr.to = Variable(stack(layout - 1))

\* an interface invocation of a two-parameter method returning a value, and
\* a virtual one, both reachable: the witness is the interface one at depth 3
C6_Witness ==
    /\ LastIsInvoke
    /\ last.instruction.kind = "Interface"
    /\ Len(metadata.method_refs[last.instruction.method_index].signature.parameters) = 2
    /\ metadata.method_refs[last.instruction.method_index].signature.return_type # "Void"
    /\ last.before = 3

ParsedBy(fn) == parsed # None /\ parsed[1].fn = fn

\* C7: parsing '(' ++ the parameter descriptors with no separator ++ ')' ++
\* the return descriptor yields exactly those parameter types, in order, and
\* that return type, for every number of parameters.
C7_SignatureRoundTrip ==
    \A sig \in Signatures :
        ( ParsedBy("descriptor_to_signature") /\ descriptor = MethodDescriptor(sig, <<>>) )
        => /\ parsed[1].panic = None
           /\ parsed[1].value = Some(sig)

ValidStart == { "B", "C", "D", "F", "I", "J", "L", "S", "V", "Z", "[" }

\* C8: each listed malformation is a fatal parse error: a method descriptor
\* without a leading '(', a class name with no ';' before the input ends, an
\* unknown leading character, and input exhausted in the middle of a token.
C8_MalformedIsFatal ==
    /\ ( ParsedBy("descriptor_to_signature")
         /\ descriptor # <<>> /\ Head(descriptor) # "(" )
       => parsed[1].panic # None /\ parsed[1].value = None
    /\ ( ParsedBy("descriptor_to_type")
         /\ descriptor # <<>> /\ Head(descriptor) = "L"
         /\ ";" \notin SeqRange(descriptor) )
       => parsed[1].panic # None /\ parsed[1].value = None
    /\ ( ParsedBy("descriptor_to_type")
         /\ descriptor # <<>> /\ Head(descriptor) \notin ValidStart )
       => parsed[1].panic # None /\ parsed[1].value = None
    /\ ( ParsedBy("descriptor_to_type")
         /\ SeqRange(descriptor) \subseteq { "[" } )
       => parsed[1].panic # None /\ parsed[1].value = None

\* the index of the first ';' of a string that holds one
FirstSemicolon(d) ==
    CHOOSE k \in DOMAIN d : d[k] = ";" /\ \A j \in 1 .. (k - 1) : d[j] # ";"

\* C9: parsing the descriptor of a Type reproduces it, consuming the whole
\* descriptor: the one-letter codes, L<name>; and k leading '[' for k nested
\* arrays; the name of a reference is every character before the first ';'.
C9_TypeRoundTrip ==
    ParsedBy("descriptor_to_type") =>
        /\ \A typ \in Types :
             descriptor = TypeDescriptor(typ)
             => /\ parsed[1].panic = None
                /\ parsed[1].value = Some(typ)
                /\ parsed[1].rest = <<>>
        /\ ( descriptor # <<>> /\ Head(descriptor) = "L" /\ ";" \in SeqRange(descriptor) )
           => parsed[1].value
                = Some(Type_Reference(SubSeq(descriptor, 2, FirstSemicolon(descriptor) - 1)))

\* "[[I" parsed
C9_Witness ==
    /\ ParsedBy("descriptor_to_type")
    /\ descriptor = << "[", "[", "I" >>
    /\ parsed[1].value = Some(Type_Array(Type_Array(Type_Int)))

CountOf(x, seq) == Cardinality({ k \in DOMAIN seq : seq[k] = x })

\* C10: handle_parameters numbers local slots from 0: a non-static method gets
\* exactly one synthetic assignment (local_0 := this, in the entry block) and
\* its i-th parameter (0-based) is named local_{i+1}; a static method gets no
\* statement and its i-th parameter is named local_i; nothing else changes.
C10_ParameterNumbering ==
    [][ ( pc = "handle_parameters" /\ pc' = "done" )
        => LET static == "Static" \in method'.modifiers
               ps == method'.signature.parameters
           IN  /\ \A k \in DOMAIN ps :
                    ps[k].name = local(IF static THEN k - 1 ELSE k)
               /\ method.code = None => method'.code = None
               /\ method.code # None =>
                    LET c  == method.code[1]
                        c2 == method'.code[1]
                        e  == c.entry_point
                    IN  /\ c2.entry_point = e
                        /\ \A n \in node_count(c.graph) \ { e } : c2.graph.bbs[n] = c.graph.bbs[n]
                        /\ c2.graph.bbs[e].terminator = c.graph.bbs[e].terminator
                        /\ static => c2.graph.bbs[e].stmts = c.graph.bbs[e].stmts
                        /\ ~static =>
                             /\ Len(c2.graph.bbs[e].stmts) = Len(c.graph.bbs[e].stmts) + 1
                             /\ CountOf(ThisAssignment, c2.graph.bbs[e].stmts) = 1
                             /\ \A k \in DOMAIN c.graph.bbs[e].stmts :
                                  CountOf(c.graph.bbs[e].stmts[k], c2.graph.bbs[e].stmts)
                                    = CountOf(c.graph.bbs[e].stmts[k], c.graph.bbs[e].stmts)
      ]_vars

\* a non-static method with a body and two parameters, after handle_parameters
C10_Witness ==
    /\ pc = "done"
    /\ "Static" \notin method.modifiers
    /\ method.code # None
    /\ Len(method.signature.parameters) = 2
    /\ method.signature.parameters[2].name = local(2)

\* C11: the static two-parameter method whose single block is load local 0,
\* load local 1, add, return-with-value is translated to exactly
\* stack_0 := local_0; stack_1 := local_1; stack_0 := stack_0 + stack_1;
\* return stack_0, with depth 0 after the block, the parameters named local_0
\* and local_1, and no other statement; its translation never aborts.
C11_AddMethodEndToEnd ==
    /\ cfg = Some(AddMethod) => pc # "panicked"
    /\ ( /\ pc = "done" /\ cfg = Some(AddMethod)
         /\ "Static" \in method.modifiers
         /\ Len(method.signature.parameters) = 2 )
       => /\ method.code[1].graph.bbs
               = ( 0 :> [ stmts |->
                            << stmt_expr(Assign(Variable(stack(0)), mk_variable(local(0)))),
                               stmt_expr(Assign(Variable(stack(1)), mk_variable(local(1)))),
                               stmt_expr(Assign(Variable(stack(0)),
                                                [ e |-> "BinaryOp", op |-> "Add",
                                                  left |-> mk_variable(stack(0)),
                                                  right |-> mk_variable(stack(1)) ])),
                               [ s |-> "Return", value |-> Some(mk_variable(stack(0))) ] >>,
                          terminator |-> None ] )
          /\ stack_cur = 0
          /\ method.signature.parameters[1].name = local(0)
          /\ method.signature.parameters[2].name = local(1)

\* the add method, static with two parameters, after stack_to_vars
C11_Witness ==
    /\ pc = "done" /\ cfg = Some(AddMethod)
    /\ "Static" \in method.modifiers
    /\ Len(method.signature.parameters) = 2
    /\ Len(method.code[1].graph.bbs[0].stmts) = 4

Unsupported == { "Throw", "Synchronized", "TypeConv", "ObjManip", "StackManage" }

\* C12: executing a throw, synchronized-block marker, type-conversion,
\* object-manipulation or stack-management instruction ends in an error
\* outcome, emits no statement, and the outcome identifies the instruction
\* kind: no instruction of another kind ends in the same outcome.
C12_UnsupportedIsNamed ==
    ( last.call = "execute" /\ last.instruction.op \in Unsupported ) =>
        /\ last.panic # None
        /\ last.stmts = <<>>
        /\ \A other \in Instructions :
             execute(last.before, other).panic = last.panic
             => other.op = last.instruction.op

\* C13: translating the jump condition of a block at depth d emits no
\* statement; compare-to-zero yields stack_{d-1} ord 0 and depth d-1,
\* compare-two-values and compare-references yield stack_{d-2} ord stack_{d-1}
\* and depth d-2; every successor then set gets the depth after it.
C13_JumpConditionTranslation ==
    [][ /\ ( /\ pc = "stmts" /\ pc' \in { "succ", "walk" }
             /\ InputGraph.bbs[v].terminator # None )
           => LET cond == InputGraph.bbs[v].terminator[1]
                  d == stack_cur
                  cmp(l, r) == [ e |-> "BinaryOp", op |-> [ cmp |-> cond.ord ],
                                 left |-> l, right |-> r ]
              IN  /\ new_bb'.stmts = new_bb.stmts
                  /\ new_bbs'[v] = new_bb'
                  /\ cond.c = "CmpZero" =>
                       /\ d >= 1 /\ stack_cur' = d - 1
                       /\ new_bb'.terminator
                            = Some(cmp(mk_variable(stack(d - 1)),
                                       [ e |-> "Literal",
                                         literal |-> [ lit |-> "Integer", i |-> 0 ] ]))
                  /\ cond.c \in { "Cmp", "CmpRef" } =>
                       /\ d >= 2 /\ stack_cur' = d - 2
                       /\ new_bb'.terminator
                            = Some(cmp(mk_variable(stack(d - 2)), mk_variable(stack(d - 1))))
        /\ ( pc = "succ" /\ pc' # "panicked" )
           => /\ stack_cur' = stack_cur
              /\ stack_at_bb'[neighbors(InputGraph, v)[nbr_i]] = Some(stack_cur)
      ]_vars

\* a compare-two-values branch translated at depth 3 and its depth 1 handed on
C13_Witness ==
    /\ cfg = Some(BranchMethod([ c |-> "Cmp", ord |-> "LT" ], 3))
    /\ pc = "walk" /\ v = 0 /\ stack_cur = 1
    /\ stack_at_bb[1] = Some(1) /\ stack_at_bb[2] = Some(1)
    /\ new_bbs[0].terminator
         = Some([ e |-> "BinaryOp", op |-> [ cmp |-> "LT" ],
                  left |-> mk_variable(stack(1)), right |-> mk_variable(stack(2)) ])

\* the entries of the pool that are field or method references whose
\* name-and-type index points to an entry that is not a NameAndType
IllTyped ==
    { j \in DOMAIN constant_pool :
        /\ constant_pool[j].tag \in { "FieldRef", "MethodRef" }
        /\ constant_pool[constant_pool[j].name_index].tag # "NameAndType" }

\* C14: a field or method reference whose name-and-type index points to an
\* entry that is not a NameAndType aborts the resolution: no CompilationUnit
\* is returned, no FieldRef or MethodRef is recorded for the entry, and the
\* loop never goes past it.
C14_IllTypedReferenceIsFatal ==
    /\ \A j \in IllTyped :
         /\ j \notin DOMAIN unit.field_refs
         /\ j \notin DOMAIN unit.method_refs
         /\ next_constant < j
    /\ ( returned # None /\ returned[1].panic = None ) => IllTyped = {}
    /\ ( returned # None /\ returned[1].panic # None ) => "unit" \notin DOMAIN returned[1]

\* resolution aborted at a field reference that points to a Utf8 entry, after
\* the entries before it were resolved
C14_Witness ==
    /\ returned = Some([ panic |-> Some(NotNameAndType) ])
    /\ next_constant = 1
    /\ constant_pool[2].tag = "FieldRef"
    /\ constant_pool[constant_pool[2].name_index].tag = "Utf8"

\* C15: a store to an instance field at depth d >= 2 with object_stack_index
\* = 2 emits one assignment whose receiver is stack_{d-2} and whose source is
\* stack_{d-1}, never the receiver's slot, and leaves the depth d-2.
C15_InstanceFieldStore ==
    ( /\ last.call = "execute"
      /\ last.instruction.op = "Store"
      /\ last.instruction.to.lv = "InstanceField"
      /\ last.instruction.to.object_stack_index = 2
      /\ last.before >= 2 )
    => LET d == last.before
       IN  /\ last.panic = None
           /\ layout = d - 2
           /\ Len(last.stmts) = 1
           /\ last.stmts[1].expr.e = "Assign"
           /\ last.stmts[1].expr.to.a = "Field"
           /\ last.stmts[1].expr.to.this = Some(mk_variable(stack(d - 2)))
           /\ last.stmts[1].expr.from = mk_variable(stack(d - 1))
           /\ Some(last.stmts[1].expr.from) # last.stmts[1].expr.to.this

\* C16: whenever the walk takes a block its entry depth is set, so the lookup
\* never fails: the first block taken is the start block, seeded with 0; every
\* later one has a predecessor taken earlier, all of whose processing ended
\* before, and has its entry depth from a predecessor's exit depth.
C16_EntryDepthKnown ==
    /\ ~( pc = "panicked" /\ panic[1].kind = UnwrapNone )
    /\ ( cfg # None /\ taken # <<>> ) =>
         /\ taken[1] = StartBlock
         /\ stack_at_bb[StartBlock] = Some(0)
         /\ \A k \in DOMAIN taken : stack_at_bb[taken[k]] # None
         /\ \A k \in 2 .. Len(taken) :
              \E j \in 1 .. (k - 1) :
                /\ taken[k] \in SeqRange(neighbors(InputGraph, taken[j]))
                /\ stack_at_bb[taken[k]]
                     = Some(ExitDepth(stack_at_bb[taken[j]][1], InputGraph.bbs[taken[j]]))

\* a finished walk over a graph with two edges 0 -> 1 and a self-loop on 1
C16_Witness ==
    /\ cfg # None /\ pc = "handle_parameters"
    /\ neighbors(InputGraph, 0) = << 1, 1 >>
    /\ neighbors(InputGraph, 1) = << 1 >>
    /\ taken = << 0, 1 >>

\* C17: an invoke of a method with n parameters at depth d passes
\* stack_{d-n}, ..., stack_{d-1} in ascending order; a virtual or special
\* invocation has the receiver stack_{d-n-1}, a static or interface one has
\* none; a non-void result is assigned to the lowest slot the call freed.
C17_InvokeOperands ==
    LastIsInvoke =>
        LET d == last.before
            sig == metadata.method_refs[last.instruction.method_index].signature
            n == Len(sig.parameters)
            receiver == last.instruction.kind \in { "Virtual", "Special" }
            call == IF sig.return_type = "Void" THEN last.stmts[1].expr
                    ELSE last.stmts[1].expr.from
        IN  /\ call.e = "Invoke"
            /\ call.args = [ k \in 1 .. n |-> mk_variable(stack(d - n + (k - 1))) ]
            /\ receiver => call.this = Some(mk_variable(stack(d - n - 1)))
            /\ ~receiver => call.this = None
            /\ sig.return_type # "Void" =>
                 last.stmts[1].expr.to
                   = Variable(stack(IF receiver THEN d - n - 1 ELSE d - n))

\* a virtual invocation of a two-parameter method returning a value, at depth 4
C17_Witness ==
    /\ LastIsInvoke
    /\ last.instruction.kind = "Virtual"
    /\ last.instruction.method_index = 5
    /\ last.before = 4
    /\ layout = 2

\* a push at depth d claims slot d and leaves d+1, a pop at depth d >= 1 frees
\* slot d-1 and leaves d-1, and a push followed by a pop returns the same
\* slot and restores the depth, d being the depth of the current state
PushPopByDepth ==
    LET d == layout
    IN  /\ push(d) = [ layout |-> d + 1, ret |-> d ]
        /\ d >= 1 => pop(d) = [ layout |-> d - 1, ret |-> d - 1, panic |-> FALSE ]
        /\ d >= 0 => /\ pop(push(d).layout).ret = push(d).ret
                     /\ pop(push(d).layout).layout = d
                     /\ ~pop(push(d).layout).panic

\* a unary operation at depth d >= 1 emits stack_{d-1} := op stack_{d-1} and
\* leaves the depth unchanged
UnaryOpInPlace ==
    ( /\ last.call = "execute" /\ last.instruction.op = "Arithm"
      /\ last.instruction.arithm.a = "UnaryOp" /\ last.before >= 1 )
    => /\ last.panic = None
       /\ layout = last.before
       /\ last.stmts = << stmt_expr(Assign(Variable(stack(last.before - 1)),
                                           [ e |-> "UnaryOp", op |-> "Neg",
                                             arg |-> mk_variable(stack(last.before - 1)) ])) >>

LastIsLoad == last.call = "execute" /\ last.instruction.op = "Load"

\* the slots the operand of a load references and removes before the push
OperandSlots(rvalue) ==
    IF rvalue.rv = "LValue" /\ rvalue.lvalue.lv \in { "Stack", "InstanceField" } THEN 1 ELSE 0

\* C18 as stated: slot numbering is a function of depth only (push, pop, push
\* then pop, unary operation), and every load at depth d assigns stack_d.
C18_SlotNumberingAsStated ==
    /\ PushPopByDepth
    /\ UnaryOpInPlace
    /\ LastIsLoad => last.stmts[1].expr.to = Variable(stack(last.before))

\* C18, amended: slot numbering is a function of depth only (push, pop, push
\* then pop, unary operation); a load at depth d whose operand is a constant,
\* a local or a static field assigns stack_d and leaves d+1, and a load whose
\* operand is an instance field or an indexed stack slot assigns stack_{d-1},
\* the slot its operand freed, and leaves d.
C18_SlotNumbering ==
    /\ PushPopByDepth
    /\ UnaryOpInPlace
    /\ LastIsLoad =>
         /\ last.panic = None
         /\ Len(last.stmts) = 1
         /\ last.stmts[1].expr.to
              = Variable(stack(last.before - OperandSlots(last.instruction.rvalue)))
         /\ layout = last.before - OperandSlots(last.instruction.rvalue) + 1

\* a load of an instance field at depth 2: it assigns stack_1
C18_Witness ==
    /\ LastIsLoad
    /\ last.instruction.rvalue.rv = "LValue"
    /\ last.instruction.rvalue.lvalue.lv = "InstanceField"
    /\ last.before = 2
    /\ last.stmts[1].expr.to = Variable(stack(1))
    /\ layout = 2

\* C19: a no-op and an increment of a local by a constant leave the depth
\* unchanged; the no-op emits no statement and the increment of local i by c
\* emits exactly local_i := local_i + c, with no stack slot read or written.
C19_NoStackTraffic ==
    /\ ( last.call = "execute" /\ last.instruction.op = "Nop" )
       => /\ last.panic = None
          /\ layout = last.before
          /\ last.stmts = <<>>
    /\ ( /\ last.call = "execute" /\ last.instruction.op = "Arithm"
         /\ last.instruction.arithm.a = "IncreaseLocal" )
       => LET i == last.instruction.arithm.local_index
              c == last.instruction.arithm.increase
          IN  /\ last.panic = None
              /\ layout = last.before
              /\ last.stmts
                   = << stmt_expr(Assign(Variable(local(i)),
                                         [ e |-> "BinaryOp", op |-> "Add",
                                           left |-> mk_variable(local(i)),
                                           right |-> [ e |-> "Literal",
                                                       literal |-> [ lit |-> "Integer",
                                                                     i |-> c ] ] ])) >>

\* local 1 decremented with two values on the stack
C19_Witness ==
    /\ last.call = "execute" /\ last.instruction.op = "Arithm"
    /\ last.instruction.arithm = [ a |-> "IncreaseLocal", local_index |-> 1, increase |-> -1 ]
    /\ last.before = 2 /\ layout = 2

\* the blocks reachable from `from` along the edges of the graph
RECURSIVE Reachable(_, _)
Reachable(graph, from) ==
    LET next == from \cup { w \in DOMAIN graph.bbs :
                              \E n \in from : \E k \in DOMAIN graph.succ[n] :
                                graph.succ[n][k].target = w }
    IN  IF next = from THEN from ELSE Reachable(graph, next)

\* the statements of the instructions stmts executed from depth d
RECURSIVE StatementsOf(_, _)
StatementsOf(d, stmts) ==
    IF stmts = <<>> THEN <<>>
    ELSE execute(d, Head(stmts)).stmts \o StatementsOf(execute(d, Head(stmts)).layout, Tail(stmts))

\* the translation of the block bb entered at depth d
TranslationOf(d, bb) ==
    [ stmts |-> StatementsOf(d, bb.stmts),
      terminator |-> IF bb.terminator = None THEN None
                     ELSE Some(cond_to_expr(DepthAfter(d, bb.stmts), bb.terminator[1]).ret) ]

Terminated == pc \in { "handle_parameters", "done", "panicked" }

\* when transform has returned, the walk took every block reachable from the
\* start block exactly once and no other, and the block of the result is its
\* translation from its entry depth (an unreachable block is left empty)
EveryReachableBlockOnce ==
    ( cfg # None /\ pc = "handle_parameters" ) =>
        LET reach == Reachable(InputGraph, { StartBlock })
        IN  /\ SeqRange(taken) = reach
            /\ Len(taken) = Cardinality(reach)
            /\ \A b \in reach :
                 /\ stack_at_bb[b] # None
                 /\ method.code[1].graph.bbs[b]
                      = TranslationOf(stack_at_bb[b][1], InputGraph.bbs[b])
            /\ \A b \in node_count(InputGraph) \ reach :
                 method.code[1].graph.bbs[b] = Default_BasicBlock

\* C20: on every CFG, cycles and self-loops included, transform terminates,
\* with a result or an abort, and when it does not abort it has translated
\* every block reachable from the start block exactly once, from that block's
\* entry depth.
C20_TerminatesAndCoversReachable ==
    /\ <>Terminated
    /\ []EveryReachableBlockOnce

\* a finished transform of a cycle 0 -> 1 -> 2 -> 0
C20_Witness ==
    /\ cfg # None /\ pc = "handle_parameters"
    /\ neighbors(InputGraph, 0) = << 1 >>
    /\ neighbors(InputGraph, 1) = << 2 >>
    /\ neighbors(InputGraph, 2) = << 0 >>
    /\ Len(taken) = 3

\* C21: a successful transform leaves the shape of the graph unchanged: the
\* output has the same block indices, the same edges in the same order with
\* the same weights, and the same entry and exit points as the input.
C21_ShapeUnchanged ==
    Succeeded =>
        LET out == method.code[1]
        IN  /\ DOMAIN out.graph.bbs = DOMAIN InputGraph.bbs
            /\ DOMAIN out.graph.succ = DOMAIN InputGraph.succ
            /\ \A n \in DOMAIN InputGraph.succ :
                 /\ Len(out.graph.succ[n]) = Len(InputGraph.succ[n])
                 /\ \A k \in DOMAIN InputGraph.succ[n] :
                      /\ out.graph.succ[n][k].target = InputGraph.succ[n][k].target
                      /\ out.graph.succ[n][k].weight = InputGraph.succ[n][k].weight
            /\ out.entry_point = cfg[1].entry_point
            /\ out.exit_point = cfg[1].exit_point

\* a transformed branch method: two weighted edges, exit point 2, new contents
C21_Witness ==
    /\ Succeeded /\ pc = "handle_parameters"
    /\ cfg[1].exit_point = 2 /\ cfg[1].entry_point = 0
    /\ method.code[1].graph.succ[0] = << [ target |-> 1, weight |-> 1 ],
                                         [ target |-> 2, weight |-> 2 ] >>
    /\ method.code[1].graph.bbs[0] # cfg[1].graph.bbs[0]

\* the blocks not reachable from the start block
Dead == node_count(InputGraph) \ Reachable(InputGraph, { StartBlock })

\* C22: a block not reachable from the start block is never taken by the
\* walk nor executed, gets no entry depth and so enters no comparison of
\* depths, is never the block a panic is raised in, and is an empty block
\* with no statements and no terminator in the result of transform.
C22_UnreachableBlockUntouched ==
    cfg # None =>
        /\ \A b \in Dead :
             /\ b \notin SeqRange(taken)
             /\ b \notin dfs.discovered
             /\ stack_at_bb[b] = None
        /\ pc \in { "stmts", "succ", "panicked" } => v \notin Dead
        /\ MismatchAbort => panic[1].node \notin Dead
        /\ pc = "handle_parameters" =>
             \A b \in Dead : method.code[1].graph.bbs[b] = Default_BasicBlock

\* transform returned on a method whose unreachable block holds a throw and a
\* branch that would underflow, with an edge into the start block
C22_Witness ==
    /\ pc = "handle_parameters"
    /\ cfg = Some(DeadBlockMethod([ op |-> "Throw" ]))
    /\ Dead = { 1 }
    /\ method.code[1].graph.bbs[1] = Default_BasicBlock
    /\ Len(method.code[1].graph.bbs[0].stmts) = 1

====
